---- MODULE Spec2Model ----
(***************************************************************************)
(* Model of the invoice extractor: the client (src/app/page.tsx), with the *)
(* file selection, the sequential batch of extraction requests and the     *)
(* editable invoice ledger, and the extraction endpoint                    *)
(* (src/unnamed/part_000) from the model's reply to its response.          *)
(*                                                                         *)
(* Conventions.  A JavaScript value that may be null/undefined is an       *)
(* option: <<>> when absent, <<x>> when present.  Array indices are the    *)
(* 0-based indices of the source; sequences are 1-based, so element i of   *)
(* the source is s[i + 1].  Amounts are integers (the properties stated    *)
(* here are about which expression is stored, not about rounding).         *)
(***************************************************************************)
EXTENDS Integers, Sequences, FiniteSets, TLC

VARIABLES
    files,              \* useState<File[]>: the selected files
    error,              \* useState<string>: the message shown, [kind, names]
    loading,            \* useState(false)
    processingStatus,   \* useState<string>: <<>> for "", else <<[i, n, name]>>
    extractedInvoices,  \* useState<any[]>: the ledger
    runs,               \* the running handleSubmit calls (their closures)
    lastOp,             \* history: the last operation called on this ledger
    nOps,               \* history: number of operations called on this ledger
    ended,              \* history: the run that ended in the last step, if any
    message,            \* the reply of the model to the extraction request
    response,           \* the response of POST /api/extract on its way, if any
    requestCounts,      \* the endpoint's Map of client address to its window
    now,                \* Date.now() at the endpoint, in milliseconds
    answered,           \* history: the last request the endpoint answered
    download            \* the file the last export handed to the browser

vars == <<files, error, loading, processingStatus, extractedInvoices, runs,
          lastOp, nOps, ended, message, response, requestCounts, now,
          answered, download>>

\* the state of the extraction endpoint's exchange
server == <<message, response, requestCounts, now, answered>>

----------------------------------------------------------------------------
(* Bounds of the exploration *)

MaxOps == 2          \* operations called on one ledger by direct calls
MaxEdits == 1        \* edits made to one ledger through the interface
MaxItems == 2        \* line items an invoice may grow to
MaxLedger == 2       \* invoices a ledger may grow to by direct calls
MaxSel == 2          \* files in an enumerated selection
MaxRuns == 2         \* handleSubmit calls that may be in progress at once
MaxReply == 4        \* tokens in an enumerated reply of the model
MaxStr == 3          \* characters in an enumerated string value

----------------------------------------------------------------------------
(* JavaScript values *)

None == <<>>
Some(x) == <<x>>

\* the number that is not a number, an integer no amount of the model reaches
NaN == -999999

\* (x || 0) on a number: NaN and 0 are the falsy numbers
OrZero(x) == IF x = NaN THEN 0 ELSE x

\* (x || 0) on a number or null/undefined
Or0(o) == IF o = None THEN 0 ELSE OrZero(o[1])

\* parseFloat(e.target.value): raw is None for text that is no number
parseFloat(raw) == IF raw = None THEN NaN ELSE raw[1]

\* the value of the input passed on as parsed
ParseFloatUncoerced(raw) == parseFloat(raw)

\* parseFloat(e.target.value) || 0
ParseFloatOr0(raw) == OrZero(parseFloat(raw))

----------------------------------------------------------------------------
(* The ledger: extractedInvoices and its mutations *)

NumFields == {"quantity", "unit_price", "line_total"}
ItemFields == {"description"} \cup NumFields
AmountFields == {"subtotal", "tax_amount", "total_amount"}
TextFields == {"vendor_name"}
InvoiceFields == TextFields \cup AmountFields

\* {...undefined}: an object with no field set
EmptyItem ==
    [description |-> None, quantity |-> None, unit_price |-> None,
     line_total |-> None]

EmptyInvoice ==
    [vendor_name |-> None, invoice_number |-> None, invoice_date |-> None,
     due_date |-> None, purchase_order_number |-> None, subtotal |-> None,
     tax_amount |-> None, total_amount |-> None, line_items |-> None,
     _filename |-> None]

\* the literal of addLineItem
NewItem ==
    [description |-> Some("New Item"), quantity |-> Some(1),
     unit_price |-> Some(0), line_total |-> Some(0)]

\* items.reduce((sum, item) => sum + (item.line_total || 0), 0)
RECURSIVE SumLineTotals(_)
SumLineTotals(items) ==
    IF items = <<>> THEN 0
    ELSE SumLineTotals(SubSeq(items, 1, Len(items) - 1))
            + Or0(items[Len(items)].line_total)

\* the outcome of a handler: the state it set, or the exception it raised
\* before reaching setExtractedInvoices
Done(ledger) == [ok |-> TRUE, ledger |-> ledger]
Throws(ledger) == [ok |-> FALSE, ledger |-> ledger]

InRange(seq, index) == index >= 0 /\ index < Len(seq)

\* Recalculate without the assignment to subtotal
RecalculateTotalOnly(inv, items) ==
    [inv EXCEPT !.line_items = Some(items),
                !.total_amount = Some(Or0(inv.subtotal) + Or0(inv.tax_amount))]

\* subtotal = reduce(...); total_amount = subtotal + (tax_amount || 0)
Recalculate(inv, items) ==
    [inv EXCEPT !.line_items = Some(items),
                !.subtotal = Some(SumLineTotals(items)),
                !.total_amount = Some(SumLineTotals(items) + Or0(inv.tax_amount))]

\* a write to every element of the array
SetAtEvery(seq, index, x) == [k \in 1..Len(seq) |-> x]

\* arr[index] = x on a copy of arr, for index in -1 .. arr.length:
\* an element is replaced, one is appended at index = length, and a write at
\* -1 makes a property that no element read ever sees
SetAt(seq, index, x) ==
    IF InRange(seq, index) THEN [seq EXCEPT ![index + 1] = x]
    ELSE IF index = Len(seq) THEN Append(seq, x)
    ELSE seq

\* updateInvoice followed by a recomputation of total_amount
updateInvoiceRecomputing(ledger, index, field, value) ==
    LET old == IF InRange(ledger, index) THEN ledger[index + 1] ELSE EmptyInvoice
        set == [old EXCEPT ![field] = Some(value)]
    IN  Done(SetAt(ledger, index,
            IF field \in AmountFields
            THEN [set EXCEPT !.total_amount = Some(Or0(set.subtotal) + Or0(set.tax_amount))]
            ELSE set))

updateInvoice(ledger, index, field, value) ==
    LET old == IF InRange(ledger, index) THEN ledger[index + 1] ELSE EmptyInvoice
    IN  Done(SetAt(ledger, index, [old EXCEPT ![field] = Some(value)]))

\* AutoCalculate with the test on unit_price left out
AutoCalculateQuantityOnly(written, field, value) ==
    IF field = "quantity"
    THEN [written EXCEPT !.line_total = Some(value * Or0(written.unit_price))]
    ELSE written

\* AutoCalculate without the test on the field
AutoCalculateAlways(written, field, value) ==
    [written EXCEPT !.line_total = Some(Or0(written.quantity) * Or0(written.unit_price))]

\* if (field === 'quantity' || field === 'unit_price')
\*     line_total = (qty || 0) * (price || 0)
AutoCalculate(written, field, value) ==
    LET qty == IF field = "quantity" THEN OrZero(value) ELSE Or0(written.quantity)
        price == IF field = "unit_price" THEN OrZero(value) ELSE Or0(written.unit_price)
    IN  IF field \in {"quantity", "unit_price"}
        THEN [written EXCEPT !.line_total = Some(qty * price)]
        ELSE written

updateLineItem(ledger, invoiceIndex, itemIndex, field, value) ==
    IF ~InRange(ledger, invoiceIndex) THEN Throws(ledger)
    ELSE LET inv == ledger[invoiceIndex + 1] IN
    IF inv.line_items = None THEN Throws(ledger)
    ELSE
    LET items == inv.line_items[1]
        old == IF InRange(items, itemIndex) THEN items[itemIndex + 1] ELSE EmptyItem
        written == [old EXCEPT ![field] = Some(value)]
        updatedLineItems == SetAt(items, itemIndex, AutoCalculate(written, field, value))
    IN  Done([ledger EXCEPT ![invoiceIndex + 1] = Recalculate(inv, updatedLineItems)])

\* addLineItem with the new item put before the existing ones
addLineItemFirst(ledger, invoiceIndex) ==
    IF ~InRange(ledger, invoiceIndex) THEN Throws(ledger)
    ELSE
    LET inv == ledger[invoiceIndex + 1]
        items == IF inv.line_items = None THEN <<>> ELSE inv.line_items[1]
    IN  Done([ledger EXCEPT ![invoiceIndex + 1] = Recalculate(inv, <<NewItem>> \o items)])

addLineItem(ledger, invoiceIndex) ==
    IF ~InRange(ledger, invoiceIndex) THEN Throws(ledger)
    ELSE
    LET inv == ledger[invoiceIndex + 1]
        items == IF inv.line_items = None THEN <<>> ELSE inv.line_items[1]
    IN  Done([ledger EXCEPT ![invoiceIndex + 1] = Recalculate(inv, Append(items, NewItem))])

\* a filter that drops the last item whatever the index
FilterOutLast(items, itemIndex) ==
    IF InRange(items, itemIndex) THEN SubSeq(items, 1, Len(items) - 1) ELSE items

\* items.filter((_, idx) => idx !== itemIndex)
FilterOut(items, itemIndex) ==
    IF InRange(items, itemIndex)
    THEN SubSeq(items, 1, itemIndex) \o SubSeq(items, itemIndex + 2, Len(items))
    ELSE items

deleteLineItem(ledger, invoiceIndex, itemIndex) ==
    IF ~InRange(ledger, invoiceIndex) THEN Throws(ledger)
    ELSE LET inv == ledger[invoiceIndex + 1] IN
    IF inv.line_items = None THEN Throws(ledger)
    ELSE Done([ledger EXCEPT ![invoiceIndex + 1] =
                    Recalculate(inv, FilterOut(inv.line_items[1], itemIndex))])

\* the onChange of the tax input, rendered for an existing invoice idx
TaxChange(ledger, idx, raw) ==
    LET newTax == ParseFloatOr0(raw)
        inv == ledger[idx + 1]
    IN  Done([ledger EXCEPT ![idx + 1] =
                [inv EXCEPT !.tax_amount = Some(newTax),
                            !.total_amount = Some(Or0(inv.subtotal) + newTax)]])

----------------------------------------------------------------------------
(* File selection: validateFiles, handleDrop, handleChange *)

MaxFilesPerBatch == 50
MaxSizeBytes == 10485760
DelayMs == 500

Pdf == "application/pdf"

NoError == [kind |-> "none", names |-> <<>>]

\* the first file, in list order, that the loop of validateFiles refuses
RECURSIVE FirstRefused(_)
FirstRefused(fileList) ==
    IF fileList = <<>> THEN NoError
    ELSE LET file == Head(fileList) IN
         IF file.type # Pdf THEN [kind |-> "notpdf", names |-> <<file.name>>]
         ELSE IF file.size > MaxSizeBytes
              THEN [kind |-> "size", names |-> <<file.name>>]
              ELSE FirstRefused(Tail(fileList))

\* validateFiles without the test on the number of files
validateFilesAnyCount(fileList) ==
    IF Len(fileList) = 0 THEN [kind |-> "empty", names |-> <<>>]
    ELSE FirstRefused(fileList)

\* validateFiles: NoError stands for the null it returns
validateFiles(fileList) ==
    IF Len(fileList) > MaxFilesPerBatch THEN [kind |-> "max", names |-> <<>>]
    ELSE IF Len(fileList) = 0 THEN [kind |-> "empty", names |-> <<>>]
    ELSE FirstRefused(fileList)

\* handlers that keep the list they report an error for
SelectUnchecked(fileList, current) ==
    IF Len(fileList) > 0
    THEN [files |-> fileList, error |-> validateFiles(fileList)]
    ELSE [files |-> current, error |-> NoError]

\* handleDrop / handleChange after their setError(""): what they leave in
\* (files, error)
Select(fileList, current) ==
    IF Len(fileList) > 0
    THEN IF validateFiles(fileList) # NoError
         THEN [files |-> current, error |-> validateFiles(fileList)]
         ELSE [files |-> fileList, error |-> NoError]
    ELSE [files |-> current, error |-> NoError]

----------------------------------------------------------------------------
(* The batch: handleSubmit, one record of runs per call in progress *)

\* the submit button without disabled={loading}
SubmitEnabledWhileLoading == Len(files) > 0 /\ error = NoError

\* the submit button: rendered when files.length > 0 && !error, disabled={loading}
SubmitEnabled == Len(files) > 0 /\ error = NoError /\ ~loading

\* {_filename: file.name, ...result.data}: the spread written last
WithFilenameFirst(data, name) ==
    IF data._filename = None THEN [data EXCEPT !._filename = Some(name)] ELSE data

\* results.push({...result.data, _filename: file.name})
WithFilename(data, name) == [data EXCEPT !._filename = Some(name)]

StatusOf(run) ==
    Some([i |-> run.i + 1, n |-> Len(run.files), name |-> run.files[run.i + 1].name])

\* the state of a call from its first statement to its first await (the fetch
\* of files[0]).  files, i, results and failedFiles are the locals of the call,
\* pc the await it is suspended at and ok the response.ok it holds; asked (the
\* indices fetched), log (how each round trip ended) and waited (the
\* milliseconds of timer waited for) are history
StartRun(fileList) ==
    [files |-> fileList, i |-> 0, pc |-> "fetch", ok |-> FALSE,
     results |-> <<>>, failedFiles |-> <<>>,
     asked |-> <<0>>, log |-> <<>>, waited |-> 0]

\* try-block success: the record is pushed
Succeeds(run, data) ==
    [run EXCEPT !.results = Append(@, WithFilename(data, run.files[run.i + 1].name)),
                !.log = Append(@, "ok")]

\* catch (fileError): the name is pushed
Fails(run, why) ==
    [run EXCEPT !.failedFiles = Append(@, run.files[run.i + 1].name),
                !.log = Append(@, why)]

\* the loop left at the first failure
MoreToDoUnlessFailed(run) ==
    run.i < Len(run.files) - 1 /\ run.failedFiles = <<>>

\* if (i < files.length - 1) await the timer
MoreToDo(run) == run.i < Len(run.files) - 1

\* the loop going on to the next fetch without the await
AwaitDelaySkipped(run) ==
    [run EXCEPT !.i = @ + 1, !.pc = "fetch", !.asked = Append(@, run.i + 1)]

\* await new Promise(resolve => setTimeout(resolve, 500))
AwaitDelay(run) == [run EXCEPT !.pc = "delay"]

\* a request is outstanding from fetch() until the body has been read
InFlight(run) == run.pc \in {"fetch", "json"}

----------------------------------------------------------------------------
(* Inputs *)

\* what the user types in a number input: no number, or the text of one
RawInputs == {None, Some(3)}
TaxInputs == {None, Some(-2)}
TextInputs == {"Acme"}

\* response data of the extraction endpoint: Payloads for the ledgers direct
\* calls start from, Bodies for the responses a batch receives.  The model's
\* reply is free to carry a _filename of its own (0 is no file's name)
Consistent ==
    [vendor_name |-> Some("Acme"), invoice_number |-> Some("INV-1"),
     invoice_date |-> Some("2024-01-15"), due_date |-> Some("2024-02-15"),
     purchase_order_number |-> Some("PO-9"),
     subtotal |-> Some(20), tax_amount |-> Some(2),
     total_amount |-> Some(22), _filename |-> Some(0),
     line_items |-> Some(<<[description |-> Some("Widget"), quantity |-> Some(2),
                            unit_price |-> Some(10), line_total |-> Some(20)]>>)]
Bare ==
    [vendor_name |-> None, invoice_number |-> None, invoice_date |-> None,
     due_date |-> None, purchase_order_number |-> None,
     subtotal |-> Some(5), tax_amount |-> None,
     total_amount |-> Some(7), _filename |-> None,
     line_items |-> None]
Partial ==
    [vendor_name |-> Some("Bolt"), invoice_number |-> Some("INV-2"),
     invoice_date |-> None, due_date |-> None,
     purchase_order_number |-> None,
     subtotal |-> Some(50), tax_amount |-> Some(1),
     total_amount |-> Some(60), _filename |-> None,
     line_items |-> Some(<<[description |-> None, quantity |-> None,
                            unit_price |-> Some(10), line_total |-> None],
                           [description |-> Some("Nut"), quantity |-> Some(1),
                            unit_price |-> Some(3), line_total |-> Some(4)]>>)]
Payloads == {Consistent, Bare, Partial}
Bodies == {Consistent}

\* the ledgers the direct calls start from
Ledgers ==
    {<<>>, <<Consistent>>, <<Bare>>, <<Partial>>, <<Consistent, Bare>>,
     <<Partial, Consistent>>}

\* the kinds of file a selection is made of
GoodFile == [type |-> Pdf, size |-> MaxSizeBytes]
FileKinds ==
    {GoodFile, [type |-> "image/png", size |-> MaxSizeBytes],
     [type |-> Pdf, size |-> MaxSizeBytes + 1]}

\* the precondition on a selection: 1 to 50 files, each a PDF of at most 10 MiB
ValidSelection(fileList) ==
    /\ Len(fileList) \in 1..50
    /\ \A k \in 1..Len(fileList) :
          fileList[k].type = "application/pdf" /\ fileList[k].size <= 10485760

\* a FileList of the given kinds, its files named by position; valid is
\* history: whether the selection the file came in met the precondition
AsFiles(kinds) ==
    LET met == ValidSelection(kinds)
    IN  [k \in 1..Len(kinds) |->
            [name |-> k, type |-> kinds[k].type, size |-> kinds[k].size,
             valid |-> met]]

Uniform(n, kind) == [k \in 1..n |-> kind]

SmallSelections == UNION {[1..n -> FileKinds] : n \in 0..MaxSel}
\* selections at the limits: none, one file of each kind, 50 and 51 files of
\* exactly 10 MiB, and 50 files the last of which is one byte larger
LimitSelections ==
    {<<>>} \cup {<<kind>> : kind \in FileKinds}
    \cup {Uniform(n, GoodFile) : n \in {MaxFilesPerBatch, MaxFilesPerBatch + 1}}
    \cup {[Uniform(MaxFilesPerBatch, GoodFile) EXCEPT
              ![MaxFilesPerBatch] = [type |-> Pdf, size |-> MaxSizeBytes + 1]]}

----------------------------------------------------------------------------
(* The extraction endpoint: from the model's reply to the response.  A text  *)
(* is a sequence of tokens: an opening brace, a closing brace, a word of     *)
(* prose, a member ("key": value, with its separator) or the start of a      *)
(* member that has no value ("a":).  A string value is a sequence of         *)
(* characters.                                                               *)

\* scalar JSON values; Absent is undefined, the value of a key the object
\* does not have
Absent == [type |-> "absent", n |-> 0, s |-> <<>>]
JNull == [type |-> "null", n |-> 0, s |-> <<>>]
JNum(n) == [type |-> "number", n |-> n, s |-> <<>>]
JStr(s) == [type |-> "string", n |-> 0, s |-> s]

\* the value of line_items: undefined, or an array of items
NoList == [type |-> "absent", items |-> <<>>]
JArr(items) == [type |-> "array", items |-> items]

\* an element of line_items: an object, or null
Item(description, quantity, unit_price, line_total) ==
    [kind |-> "object", description |-> description, quantity |-> quantity,
     unit_price |-> unit_price, line_total |-> line_total]
NullItem ==
    [kind |-> "null", description |-> Absent, quantity |-> Absent,
     unit_price |-> Absent, line_total |-> Absent]

ScalarKeys == {"vendor_name", "subtotal", "tax_amount", "total_amount", "_filename"}

\* {}: the object with no key
EmptyObject ==
    [vendor_name |-> Absent, subtotal |-> Absent, tax_amount |-> Absent,
     total_amount |-> Absent, _filename |-> Absent, line_items |-> NoList]

Open == [t |-> "{", key |-> "", value |-> Absent, list |-> NoList]
Close == [t |-> "}", key |-> "", value |-> Absent, list |-> NoList]
Prose == [t |-> "p", key |-> "", value |-> Absent, list |-> NoList]
NoValue == [t |-> "bad", key |-> "a", value |-> Absent, list |-> NoList]
Member(key, value) == [t |-> "m", key |-> key, value |-> value, list |-> NoList]
ListMember(items) == [t |-> "m", key |-> "line_items", value |-> Absent, list |-> JArr(items)]

Indices(text, t) == {i \in 1..Len(text) : text[i].t = t}
Min(S) == CHOOSE x \in S : \A y \in S : x <= y
Max(S) == CHOOSE x \in S : \A y \in S : x >= y

\* a match that ends at the first closing brace after the opening one
MatchShortest(text) ==
    IF \E i \in Indices(text, "{"), j \in Indices(text, "}") : i < j
    THEN LET first == Min(Indices(text, "{"))
         IN  Some(SubSeq(text, first,
                         Min({j \in Indices(text, "}") : j > first})))
    ELSE None

\* responseText.match(/\{[\s\S]*\}/): jsonMatch[0], or null.  The leftmost
\* opening brace that a closing brace follows is the first opening brace, and
\* [\s\S]* takes all it can, up to the last closing brace
Match(text) ==
    IF \E i \in Indices(text, "{"), j \in Indices(text, "}") : i < j
    THEN Some(SubSeq(text, Min(Indices(text, "{")), Max(Indices(text, "}"))))
    ELSE None

\* the object of the members, a later member replacing an earlier one of
\* the same key
RECURSIVE ObjectOf(_)
ObjectOf(members) ==
    IF members = <<>> THEN EmptyObject
    ELSE LET m == members[Len(members)]
             rest == ObjectOf(SubSeq(members, 1, Len(members) - 1))
         IN  IF m.key = "line_items" THEN [rest EXCEPT !.line_items = m.list]
             ELSE [rest EXCEPT ![m.key] = m.value]

\* JSON.parse of a text that starts with an opening brace: an object is an
\* opening brace, members and a closing brace; anything else is a SyntaxError
JSONparse(text) ==
    IF /\ Len(text) >= 2
       /\ text[1].t = "{"
       /\ text[Len(text)].t = "}"
       /\ \A i \in 2..(Len(text) - 1) : text[i].t = "m"
    THEN [ok |-> TRUE, value |-> ObjectOf(SubSeq(text, 2, Len(text) - 1))]
    ELSE [ok |-> FALSE, value |-> EmptyObject]

\* a replace without the g flag: the first tag only
RECURSIVE StripFirstTag(_)
StripFirstTag(s) ==
    IF s = <<>> THEN <<>>
    ELSE IF Head(s) = "<" /\ \E j \in 2..Len(s) : s[j] = ">"
         THEN SubSeq(s, Min({j \in 2..Len(s) : s[j] = ">"}) + 1, Len(s))
         ELSE <<Head(s)>> \o StripFirstTag(Tail(s))

\* str.replace(/<[^>]*>/g, ""): from the left, each "<" that a ">" follows
\* goes with everything up to the nearest such ">"
RECURSIVE StripTags(_)
StripTags(s) ==
    IF s = <<>> THEN <<>>
    ELSE IF Head(s) = "<" /\ \E j \in 2..Len(s) : s[j] = ">"
         THEN StripTags(SubSeq(s, Min({j \in 2..Len(s) : s[j] = ">"}) + 1, Len(s)))
         ELSE <<Head(s)>> \o StripTags(Tail(s))

WhiteSpace == {" "}

\* str.trim()
RECURSIVE Trim(_)
Trim(s) ==
    IF s = <<>> THEN <<>>
    ELSE IF Head(s) \in WhiteSpace THEN Trim(Tail(s))
    ELSE IF s[Len(s)] \in WhiteSpace THEN Trim(SubSeq(s, 1, Len(s) - 1))
    ELSE s

\* sanitize(str): a string loses its tags and is trimmed, any other value
\* is returned as it is
sanitize(v) == IF v.type = "string" THEN JStr(Trim(StripTags(v.s))) ELSE v

\* Object.keys(extractedData).forEach: the string-typed top-level values
SanitizeKeys(data) ==
    [key \in DOMAIN data |->
        IF key \in ScalarKeys THEN sanitize(data[key]) ELSE data[key]]

\* item.description of a null element raises a TypeError
SanitizeThrows(data) ==
    /\ data.line_items.type = "array"
    /\ \E k \in 1..Len(data.line_items.items) : data.line_items.items[k].kind = "null"

\* line_items.map(item => ({...item, description: sanitize(item.description)}))
SanitizeItems(data) ==
    IF data.line_items.type = "array"
    THEN [data EXCEPT !.line_items.items =
            [k \in 1..Len(@) |-> [@[k] EXCEPT !.description = sanitize(@)]]]
    ELSE data

Failure(why) == [status |-> 500, error |-> why, data |-> None]
Success(data) == [status |-> 200, error |-> "", data |-> Some(data)]

\* the handler going on with {} after a SyntaxError
ExtractLenient(msg) ==
    LET responseText == IF msg.type = "text" THEN msg.text ELSE <<>>
        jsonMatch == Match(responseText)
    IN  IF jsonMatch = None
        THEN Failure("Failed to extract structured data from invoice")
        ELSE LET parsed == JSONparse(jsonMatch[1]) IN
             IF SanitizeThrows(parsed.value) THEN Failure("Failed to process invoice")
             ELSE Success(SanitizeItems(SanitizeKeys(parsed.value)))

\* POST from the reply of the model to the response
Extract(msg) ==
    LET responseText == IF msg.type = "text" THEN msg.text ELSE <<>>
        jsonMatch == Match(responseText)
    IN  IF jsonMatch = None
        THEN Failure("Failed to extract structured data from invoice")
        ELSE LET parsed == JSONparse(jsonMatch[1]) IN
             IF ~parsed.ok THEN Failure("Failed to parse extracted data")
             ELSE IF SanitizeThrows(parsed.value) THEN Failure("Failed to process invoice")
             ELSE Success(SanitizeItems(SanitizeKeys(parsed.value)))

\* the tokens the enumerated replies are made of
Tagged == <<" ", "<", "b", ">", "A", "<", "/", "b", ">">>
ReplyTokens ==
    {Open, Close, Prose, NoValue,
     Member("vendor_name", JStr(Tagged)),
     Member("subtotal", JNum(5)),
     ListMember(<<Item(JStr(Tagged), Absent, JNum(10), Absent)>>),
     ListMember(<<NullItem>>)}

Chars == {"<", ">", " ", "a"}
Strings == UNION {[1..n -> Chars] : n \in 0..MaxStr}

\* the replies: every text of up to MaxReply tokens, a reply that is no text,
\* and an object whose strings are every string of up to MaxStr characters
Messages ==
    {[type |-> "text", text |-> text] :
        text \in UNION {[1..n -> ReplyTokens] : n \in 0..MaxReply}}
    \cup {[type |-> "tool_use", text |-> <<Open, Member("subtotal", JNum(5)), Close>>]}
    \cup {[type |-> "text",
           text |-> <<Prose, Open, Member("vendor_name", JStr(s)),
                      ListMember(<<Item(JStr(s), JNum(2), Absent, JNull)>>),
                      Close>>] : s \in Strings}

NoMessage == [type |-> "text", text |-> <<>>]

----------------------------------------------------------------------------
(* exportToCSV.  A text is a sequence of pieces: a double quote, a comma   *)
(* and a line break are pieces of their own, every other piece is a run of *)
(* characters with none of the three in it.                                *)

Quote == "\""
Comma == ","
LineBreak == "\n"

\* texts with a double quote, a comma and a line break in them
Inch == "3\" pipe"
Listed == "Bolt, Nut"
TwoLines == "Unit 5\nDock"

\* the characters of a string
CharsOf(text) ==
    CASE text = "" -> <<>>
      [] text = Inch -> <<"3", Quote, " pipe">>
      [] text = Listed -> <<"Bolt", Comma, " Nut">>
      [] text = TwoLines -> <<"Unit 5", LineBreak, "Dock">>
      [] OTHER -> <<text>>

\* x || "" of a text field
TextOr(o) == IF o = None THEN "" ELSE o[1]

\* `"${x || ""}"`
TextCell(o) == <<Quote>> \o CharsOf(TextOr(o)) \o <<Quote>>

\* `${x || 0}`
NumCell(o) == <<ToString(Or0(o))>>

EmptyCell == <<>>

\* the five cells every row starts with
InvoiceCells(invoice) ==
    <<TextCell(invoice.vendor_name), TextCell(invoice.invoice_number),
      TextCell(invoice.invoice_date), TextCell(invoice.due_date),
      TextCell(invoice.purchase_order_number)>>

\* the totals written on every row of the invoice
TotalsOnEveryRow(invoice, index) ==
    <<NumCell(invoice.subtotal), NumCell(invoice.tax_amount),
      NumCell(invoice.total_amount)>>

\* if (index === 0) the totals, else `,,`
TotalsCells(invoice, index) ==
    IF index = 0
    THEN <<NumCell(invoice.subtotal), NumCell(invoice.tax_amount),
           NumCell(invoice.total_amount)>>
    ELSE <<EmptyCell, EmptyCell, EmptyCell>>

\* the row of line item index of an invoice
ItemRow(invoice, item, index) ==
    InvoiceCells(invoice)
    \o <<TextCell(item.description), NumCell(item.quantity),
          NumCell(item.unit_price), NumCell(item.line_total)>>
    \o TotalsCells(invoice, index)

\* a placeholder row that leaves the totals out as well
PlaceholderRowBlank(invoice) ==
    InvoiceCells(invoice)
    \o <<TextCell(Some("No line items")), EmptyCell, EmptyCell, EmptyCell,
          EmptyCell, EmptyCell, EmptyCell>>

\* the row of an invoice with no line items
PlaceholderRow(invoice) ==
    InvoiceCells(invoice)
    \o <<TextCell(Some("No line items")), EmptyCell, EmptyCell, EmptyCell,
          NumCell(invoice.subtotal), NumCell(invoice.tax_amount),
          NumCell(invoice.total_amount)>>

\* the rows of one invoice
InvoiceRows(invoice) ==
    IF invoice.line_items # None /\ Len(invoice.line_items[1]) > 0
    THEN [k \in 1..Len(invoice.line_items[1]) |->
             ItemRow(invoice, invoice.line_items[1][k], k - 1)]
    ELSE <<PlaceholderRow(invoice)>>

HeaderRow ==
    <<<<"Vendor">>, <<"Invoice Number">>, <<"Invoice Date">>, <<"Due Date">>,
      <<"PO Number">>, <<"Description">>, <<"Quantity">>, <<"Unit Price">>,
      <<"Line Total">>, <<"Subtotal">>, <<"Tax">>, <<"Total">>>>

\* the cells of a row with a comma between them and a line break at the end
RECURSIVE Joined(_)
Joined(cells) ==
    IF Len(cells) = 1 THEN cells[1] \o <<LineBreak>>
    ELSE cells[1] \o <<Comma>> \o Joined(Tail(cells))

\* the text of a sequence of rows
RECURSIVE Written(_)
Written(rows) ==
    IF rows = <<>> THEN <<>> ELSE Joined(Head(rows)) \o Written(Tail(rows))

\* the rows of the invoices of a ledger, in ledger order
RECURSIVE LedgerRows(_)
LedgerRows(ledger) ==
    IF ledger = <<>> THEN <<>>
    ELSE InvoiceRows(Head(ledger)) \o LedgerRows(Tail(ledger))

\* the csv string and the count in the name of the file
exportToCSV(ledger) ==
    [count |-> Len(ledger),
     csv |-> Joined(HeaderRow) \o Written(LedgerRows(ledger))]

\* the invoices an export starts from
ExportInvoices ==
    {Consistent, Bare, Partial,
     [Bare EXCEPT !.line_items = Some(<<>>)],
     [Consistent EXCEPT !.vendor_name = Some(Inch)],
     [Bare EXCEPT !.invoice_number = Some(Inch)],
     [Partial EXCEPT !.vendor_name = Some(Listed),
                     !.line_items[1][2].description = Some(TwoLines)]}

ExportLedgers == UNION {[1..n -> ExportInvoices] : n \in 0..MaxLedger}

----------------------------------------------------------------------------
(* The rate limiter of the endpoint *)

\* the client addresses: "unknown" when x-forwarded-for is not set
Ips == {"unknown", "10.0.0.7"}

\* the address the requests of the interface arrive from
ClientIp == "10.0.0.7"

\* limit.count >= 10
RateLimit == 10

\* 60 * 60 * 1000
WindowMs == 3600000

\* a limiter that lets a window that has run out go on
checkRateLimitNoReset(counts, ip, t) ==
    LET limit == counts[ip] IN
    IF limit = None
    THEN [ok |-> TRUE,
          counts |-> [counts EXCEPT ![ip] =
                         Some([count |-> 1, resetTime |-> t + WindowMs])]]
    ELSE IF limit[1].count >= RateLimit
    THEN [ok |-> FALSE, counts |-> counts]
    ELSE [ok |-> TRUE,
          counts |-> [counts EXCEPT ![ip] =
                         Some([limit[1] EXCEPT !.count = @ + 1])]]

\* checkRateLimit(ip) at time t: whether the request is admitted, and the Map
checkRateLimit(counts, ip, t) ==
    LET limit == counts[ip] IN
    IF limit = None \/ t > limit[1].resetTime
    THEN [ok |-> TRUE,
          counts |-> [counts EXCEPT ![ip] =
                         Some([count |-> 1, resetTime |-> t + WindowMs])]]
    ELSE IF limit[1].count >= RateLimit
    THEN [ok |-> FALSE, counts |-> counts]
    ELSE [ok |-> TRUE,
          counts |-> [counts EXCEPT ![ip] =
                         Some([limit[1] EXCEPT !.count = @ + 1])]]

Refused(status, why) == [status |-> status, error |-> why, data |-> None]

\* a check of the file that leaves its type out
RefusalBySizeOnly(file) ==
    IF file = None THEN Some("No file provided")
    ELSE IF file[1].size > MaxSizeBytes THEN Some("File size exceeds 10MB limit")
    ELSE None

\* the three checks of the file of the form data: the error of the first that
\* fails, if any
Refusal(file) ==
    IF file = None THEN Some("No file provided")
    ELSE IF file[1].type # Pdf THEN Some("Only PDF files are allowed")
    ELSE IF file[1].size > MaxSizeBytes THEN Some("File size exceeds 10MB limit")
    ELSE None

\* POST /api/extract at time t for a request [ip, file], msg being what the
\* model replies if it is asked: the Map, the response, and whether the model
\* was called
POST(counts, t, request, msg) ==
    LET limit == checkRateLimit(counts, request.ip, t) IN
    IF ~limit.ok
    THEN [counts |-> limit.counts, admitted |-> FALSE, called |-> FALSE,
          response |-> Refused(429, "Rate limit exceeded. Maximum 10 requests per hour.")]
    ELSE IF Refusal(request.file) # None
    THEN [counts |-> limit.counts, admitted |-> TRUE, called |-> FALSE,
          response |-> Refused(400, Refusal(request.file)[1])]
    ELSE [counts |-> limit.counts, admitted |-> TRUE, called |-> TRUE,
          response |-> Extract(msg)]

\* what is recorded of a request the endpoint answered
Answer(request, out) ==
    [ip |-> request.ip, file |-> request.file, admitted |-> out.admitted,
     called |-> out.called, status |-> out.response.status]

\* a reply of the model that normalizes
GoodReply ==
    [type |-> "text", text |-> <<Open, Member("subtotal", JNum(5)), Close>>]

\* the files of the requests sent to the endpoint by any client
RequestFiles == {None} \cup {Some(kind) : kind \in FileKinds}

\* the windows the clock runs through
MaxWindows == 1

----------------------------------------------------------------------------
(* Initial state *)

\* no operation yet; ok says the handler returned (it did not throw), and
\* existed that the invoice and, where one is named, the item were in range
NoOp == [op |-> "none", index |-> 0, item |-> 0, field |-> "", num |-> 0,
         text |-> "", ok |-> TRUE, existed |-> FALSE]

Start ==
    /\ files = <<>>
    /\ error = NoError
    /\ loading = FALSE
    /\ processingStatus = None
    /\ runs = <<>>
    /\ lastOp = NoOp
    /\ nOps = 0
    /\ ended = None
    /\ response = None
    /\ requestCounts = [ip \in Ips |-> None]
    /\ now = 0
    /\ answered = None
    /\ download = None

Init ==
    /\ Start
    /\ extractedInvoices = <<>>
    /\ message = NoMessage

----------------------------------------------------------------------------
(* Actions of the interface *)

\* <input type="file" onChange={handleChange}>
HandleChange(kinds) ==
    /\ \E r \in {Select(AsFiles(kinds), files)} :
          /\ files' = r.files
          /\ error' = r.error
    /\ ended' = None
    /\ UNCHANGED <<loading, processingStatus, extractedInvoices, runs, lastOp, nOps>>
    /\ UNCHANGED <<server, download>>

\* onDrop={handleDrop}; dragActive is presentation only
HandleDrop(kinds) ==
    /\ \E r \in {Select(AsFiles(kinds), files)} :
          /\ files' = r.files
          /\ error' = r.error
    /\ ended' = None
    /\ UNCHANGED <<loading, processingStatus, extractedInvoices, runs, lastOp, nOps>>
    /\ UNCHANGED <<server, download>>

\* a start of the batch that leaves the previous results in place
HandleSubmitKeepingLedger ==
    /\ SubmitEnabled
    /\ Len(files) # 0
    /\ Len(runs) < MaxRuns
    /\ loading' = TRUE
    /\ error' = NoError
    /\ runs' = Append(runs, StartRun(files))
    /\ processingStatus' = StatusOf(StartRun(files))
    /\ lastOp' = NoOp
    /\ nOps' = 0
    /\ ended' = None
    /\ UNCHANGED <<files, extractedInvoices>>
    /\ UNCHANGED <<server, download>>

\* onClick={handleSubmit}, up to the first await
HandleSubmit ==
    /\ SubmitEnabled
    /\ Len(files) # 0
    /\ Len(runs) < MaxRuns
    /\ loading' = TRUE
    /\ error' = NoError
    /\ extractedInvoices' = <<>>
    /\ runs' = Append(runs, StartRun(files))
    /\ processingStatus' = StatusOf(StartRun(files))
    /\ lastOp' = NoOp
    /\ nOps' = 0
    /\ ended' = None
    /\ UNCHANGED files
    /\ UNCHANGED <<server, download>>

\* the run continues after the document at run.i has been recorded: it waits
\* for the timer, or leaves the loop and runs to the end of handleSubmit
Continue(r, run) ==
    IF MoreToDo(run)
    THEN /\ runs' = [runs EXCEPT ![r] = AwaitDelay(run)]
         /\ ended' = None
         /\ UNCHANGED <<error, loading, processingStatus, extractedInvoices,
                        lastOp, nOps>>
    ELSE /\ runs' = SubSeq(runs, 1, r - 1) \o SubSeq(runs, r + 1, Len(runs))
         /\ extractedInvoices' = run.results
         /\ processingStatus' = None
         /\ error' = IF Len(run.failedFiles) > 0
                     THEN [kind |-> "failed", names |-> run.failedFiles]
                     ELSE error
         /\ loading' = FALSE
         /\ lastOp' = NoOp
         /\ nOps' = 0
         /\ ended' = Some(run)

\* await fetch(...) settles: the promise rejects (network error) or resolves
\* with a response whose ok flag is set by the status
FetchSettles(r, outcome) ==
    /\ r \in 1..Len(runs)
    /\ runs[r].pc = "fetch"
    /\ IF outcome = "reject"
       THEN Continue(r, Fails(runs[r], "network"))
       ELSE /\ runs' = [runs EXCEPT ![r] = [@ EXCEPT !.pc = "json",
                                                      !.ok = (outcome = "ok")]]
            /\ ended' = None
            /\ UNCHANGED <<error, loading, processingStatus, extractedInvoices,
                           lastOp, nOps>>
    /\ UNCHANGED files
    /\ UNCHANGED <<server, download>>

\* await response.json() settles: the body is not readable, or it is and
\* response.ok decides between the throw and the push
ReadBody(r, readable, data) ==
    /\ r \in 1..Len(runs)
    /\ runs[r].pc = "json"
    /\ IF readable /\ runs[r].ok
       THEN Continue(r, Succeeds(runs[r], data))
       ELSE Continue(r, Fails(runs[r], IF readable THEN "status" ELSE "unreadable"))
    /\ UNCHANGED files

JsonSettles(r, readable, data) ==
    /\ ReadBody(r, readable, data)
    /\ UNCHANGED <<server, download>>

\* the endpoint handles the request of run r and sends its response
Post(r) ==
    /\ r \in 1..Len(runs)
    /\ runs[r].pc = "fetch"
    /\ response = None
    /\ LET file == runs[r].files[runs[r].i + 1]
           request == [ip |-> ClientIp,
                       file |-> Some([type |-> file.type, size |-> file.size])]
           out == POST(requestCounts, now, request, message)
       IN  /\ response' = Some(out.response)
           /\ requestCounts' = out.counts
           /\ answered' = Some(Answer(request, out))
    /\ ended' = None
    /\ UNCHANGED <<files, error, loading, processingStatus, extractedInvoices,
                   runs, lastOp, nOps, message, now, download>>

\* a request of any client of the endpoint, answered
Request(ip, file) ==
    /\ LET request == [ip |-> ip, file |-> file]
           out == POST(requestCounts, now, request, message)
       IN  /\ requestCounts' = out.counts
           /\ answered' = Some(Answer(request, out))
    /\ ended' = None
    /\ UNCHANGED <<files, error, loading, processingStatus, extractedInvoices,
                   runs, lastOp, nOps, message, response, now, download>>

\* time passes at the endpoint, up to the end of a client's window or to the
\* millisecond after it
Tick ==
    /\ \E ip \in Ips : \E d \in {0, 1} :
          /\ requestCounts[ip] # None
          /\ now' = requestCounts[ip][1].resetTime + d
    /\ now' > now
    /\ now' <= MaxWindows * (WindowMs + 1)
    /\ ended' = None
    /\ UNCHANGED <<files, error, loading, processingStatus, extractedInvoices,
                   runs, lastOp, nOps, message, response, requestCounts,
                   answered, download>>

\* await fetch(...) resolves with the response of the endpoint
FetchAnswered(r) ==
    /\ response # None
    /\ FetchSettles(r, IF response[1].status = 200 THEN "ok" ELSE "status")

\* result.data of the body of a response
DataOf(resp) == IF resp.data = None THEN EmptyObject ELSE resp.data[1]

\* await response.json() resolves with the body the endpoint sent
JsonAnswered(r) ==
    /\ response # None
    /\ ReadBody(r, TRUE, DataOf(response[1]))
    /\ response' = None
    /\ UNCHANGED <<message, requestCounts, now, answered, download>>

\* a timer that never resolves
DelayNeverElapses(r) ==
    /\ r \in 1..Len(runs)
    /\ FALSE
    /\ UNCHANGED vars

\* the 500 ms timer resolves: the loop goes on to the next file, up to its fetch
DelayElapses(r) ==
    /\ r \in 1..Len(runs)
    /\ runs[r].pc = "delay"
    /\ LET next == [runs[r] EXCEPT !.i = @ + 1, !.pc = "fetch",
                                   !.asked = Append(@, runs[r].i + 1),
                                   !.waited = @ + DelayMs]
       IN  /\ runs' = [runs EXCEPT ![r] = next]
           /\ processingStatus' = StatusOf(next)
    /\ ended' = None
    /\ UNCHANGED <<files, error, loading, extractedInvoices, lastOp, nOps>>
    /\ UNCHANGED <<server, download>>

\* the same step seen from the endpoint: its clock has advanced by the 500 ms
DelayPasses(r) ==
    /\ r \in 1..Len(runs)
    /\ runs[r].pc = "delay"
    /\ LET next == [runs[r] EXCEPT !.i = @ + 1, !.pc = "fetch",
                                   !.asked = Append(@, runs[r].i + 1),
                                   !.waited = @ + DelayMs]
       IN  /\ runs' = [runs EXCEPT ![r] = next]
           /\ processingStatus' = StatusOf(next)
    /\ now' = now + DelayMs
    /\ ended' = None
    /\ UNCHANGED <<files, error, loading, extractedInvoices, lastOp, nOps>>
    /\ UNCHANGED <<message, response, requestCounts, answered, download>>

\* "Process More Invoices", rendered when extractedInvoices.length > 0
Reset ==
    /\ Len(extractedInvoices) > 0
    /\ extractedInvoices' = <<>>
    /\ files' = <<>>
    /\ lastOp' = NoOp
    /\ nOps' = 0
    /\ ended' = None
    /\ UNCHANGED <<error, loading, processingStatus, runs>>
    /\ UNCHANGED <<server, download>>

\* "Export to CSV": the file handed to the browser; nothing when the ledger is
\* empty
Export ==
    /\ Len(extractedInvoices) > 0
    /\ download' = Some(exportToCSV(extractedInvoices))
    /\ ended' = None
    /\ UNCHANGED <<files, error, loading, processingStatus, extractedInvoices,
                   runs, lastOp, nOps>>
    /\ UNCHANGED server

----------------------------------------------------------------------------
(* Ledger operations as actions.  A handler that throws leaves the state as *)
(* it was: setExtractedInvoices is its last statement.                      *)

Call(result, op) ==
    /\ nOps < MaxOps
    /\ \E res \in {result} :
          /\ extractedInvoices' = res.ledger
          /\ lastOp' = [op EXCEPT !.ok = res.ok]
    /\ nOps' = nOps + 1
    /\ ended' = None
    /\ UNCHANGED <<files, error, loading, processingStatus, runs>>
    /\ UNCHANGED <<server, download>>

ItemsOf(inv) == IF inv.line_items = None THEN <<>> ELSE inv.line_items[1]

\* the line items of the invoice at index, <<>> when there is none
ItemsAt(ledger, index) ==
    IF InRange(ledger, index) THEN ItemsOf(ledger[index + 1]) ELSE <<>>

Op(name, index, item, field, num, text) ==
    [op |-> name, index |-> index, item |-> item, field |-> field, num |-> num,
     text |-> text, ok |-> TRUE,
     existed |-> /\ InRange(extractedInvoices, index)
                 /\ name \in {"updateLineItem", "deleteLineItem"}
                       => InRange(ItemsAt(extractedInvoices, index), item)]

UpdateInvoiceText(index, field, text) ==
    /\ index = Len(extractedInvoices) => Len(extractedInvoices) < MaxLedger
    /\ Call(updateInvoice(extractedInvoices, index, field, text),
            Op("updateInvoice", index, 0, field, 0, text))

UpdateInvoiceNumber(index, field, raw) ==
    /\ index = Len(extractedInvoices) => Len(extractedInvoices) < MaxLedger
    /\ Call(updateInvoice(extractedInvoices, index, field, ParseFloatOr0(raw)),
            Op("updateInvoice", index, 0, field, ParseFloatOr0(raw), ""))

UpdateLineItemText(index, item, text) ==
    /\ item = Len(ItemsAt(extractedInvoices, index))
          => Len(ItemsAt(extractedInvoices, index)) < MaxItems
    /\ Call(updateLineItem(extractedInvoices, index, item, "description", text),
            Op("updateLineItem", index, item, "description", 0, text))

UpdateLineItemNumber(index, item, field, raw) ==
    /\ item = Len(ItemsAt(extractedInvoices, index))
          => Len(ItemsAt(extractedInvoices, index)) < MaxItems
    /\ Call(updateLineItem(extractedInvoices, index, item, field, ParseFloatOr0(raw)),
            Op("updateLineItem", index, item, field, ParseFloatOr0(raw), ""))

AddLineItem(index) ==
    /\ Len(ItemsAt(extractedInvoices, index)) < MaxItems
    /\ Call(addLineItem(extractedInvoices, index), Op("addLineItem", index, 0, "", 0, ""))

DeleteLineItem(index, item) ==
    Call(deleteLineItem(extractedInvoices, index, item),
         Op("deleteLineItem", index, item, "", 0, ""))

TaxInput(index, raw) ==
    /\ InRange(extractedInvoices, index)
    /\ Call(TaxChange(extractedInvoices, index, raw),
            Op("tax", index, 0, "tax_amount", ParseFloatOr0(raw), ""))

----------------------------------------------------------------------------
(* Specifications *)

\* indices of the elements of seq, as the rendered inputs and buttons pass them
Rendered(seq) == 0..(Len(seq) - 1)

\* indices a direct caller may pass: those of seq and the first one past its end
Callable(seq) == 0..Len(seq)

\* the application as the interface lets it be used: every edit control
\* belongs to an invoice, and to a line item, that exists
Next ==
    \/ \E kinds \in SmallSelections : HandleChange(kinds)
    \/ \E kinds \in SmallSelections : HandleDrop(kinds)
    \/ HandleSubmit
    \/ \E r \in 1..Len(runs), outcome \in {"reject", "ok", "status"} :
          FetchSettles(r, outcome)
    \/ \E r \in 1..Len(runs), readable \in BOOLEAN, data \in Bodies :
          JsonSettles(r, readable, data)
    \/ \E r \in 1..Len(runs) : DelayElapses(r)
    \/ Reset
    \/ /\ nOps < MaxEdits
       /\ \/ \E index \in Rendered(extractedInvoices), text \in TextInputs :
                UpdateInvoiceText(index, "vendor_name", text)
          \/ \E index \in Rendered(extractedInvoices), field \in {"subtotal", "total_amount"},
                raw \in RawInputs : UpdateInvoiceNumber(index, field, raw)
          \/ \E index \in Rendered(extractedInvoices) :
                \E item \in Rendered(ItemsAt(extractedInvoices, index)), text \in TextInputs :
                   UpdateLineItemText(index, item, text)
          \/ \E index \in Rendered(extractedInvoices) :
                \E item \in Rendered(ItemsAt(extractedInvoices, index)),
                   field \in NumFields, raw \in RawInputs :
                   UpdateLineItemNumber(index, item, field, raw)
          \/ \E index \in Rendered(extractedInvoices) :
                \E item \in Rendered(ItemsAt(extractedInvoices, index)) :
                   DeleteLineItem(index, item)
          \/ \E index \in Rendered(extractedInvoices) : AddLineItem(index)
          \/ \E index \in Rendered(extractedInvoices), raw \in TaxInputs :
                TaxInput(index, raw)

Spec == Init /\ [][Next]_vars

\* what the page waits for: every request returns or fails, every body is read
\* or fails to be, every timer fires
Settles ==
    \/ \E r \in 1..Len(runs), outcome \in {"reject", "ok", "status"} :
          FetchSettles(r, outcome)
    \/ \E r \in 1..Len(runs), readable \in BOOLEAN, data \in Bodies :
          JsonSettles(r, readable, data)
    \/ \E r \in 1..Len(runs) : DelayElapses(r)

\* the batches of the interface: selections of accepted files and of one
\* refused file, the submit button, what the page waits for, and the reset
NextLive ==
    \/ \E n \in 1..MaxSel : HandleChange(Uniform(n, GoodFile))
    \/ \E kind \in FileKinds : HandleDrop(<<kind>>)
    \/ HandleSubmit
    \/ Settles
    \/ Reset

SpecLive == Init /\ [][NextLive]_vars /\ WF_vars(Settles)

\* the ledger functions called directly, on any ledger an extraction can leave
\* behind, with any field and with indices in and out of range
InitLedger ==
    /\ Start
    /\ extractedInvoices \in Ledgers
    /\ message = NoMessage

NextLedger ==
    \/ \E index \in Callable(extractedInvoices), text \in TextInputs :
          UpdateInvoiceText(index, "vendor_name", text)
    \/ \E index \in Callable(extractedInvoices), field \in AmountFields,
          raw \in RawInputs : UpdateInvoiceNumber(index, field, raw)
    \/ \E index \in Callable(extractedInvoices) :
          \E item \in Callable(ItemsAt(extractedInvoices, index)), text \in TextInputs :
             UpdateLineItemText(index, item, text)
    \/ \E index \in Callable(extractedInvoices) :
          \E item \in Callable(ItemsAt(extractedInvoices, index)),
             field \in NumFields, raw \in RawInputs :
             UpdateLineItemNumber(index, item, field, raw)
    \/ \E index \in Callable(extractedInvoices) :
          \E item \in Callable(ItemsAt(extractedInvoices, index)) :
             DeleteLineItem(index, item)
    \/ \E index \in Callable(extractedInvoices) : AddLineItem(index)
    \/ \E index \in Rendered(extractedInvoices), raw \in TaxInputs :
          TaxInput(index, raw)

SpecLedger == InitLedger /\ [][NextLedger]_vars

\* the edit surface on any ledger an extraction can leave behind: the inputs
\* and buttons of the rows rendered for its invoices and their line items
NextSurface ==
    \/ \E index \in Rendered(extractedInvoices), text \in TextInputs :
          UpdateInvoiceText(index, "vendor_name", text)
    \/ \E index \in Rendered(extractedInvoices), field \in {"subtotal", "total_amount"},
          raw \in RawInputs : UpdateInvoiceNumber(index, field, raw)
    \/ \E index \in Rendered(extractedInvoices) :
          \E item \in Rendered(ItemsAt(extractedInvoices, index)), text \in TextInputs :
             UpdateLineItemText(index, item, text)
    \/ \E index \in Rendered(extractedInvoices) :
          \E item \in Rendered(ItemsAt(extractedInvoices, index)),
             field \in NumFields, raw \in RawInputs :
             UpdateLineItemNumber(index, item, field, raw)
    \/ \E index \in Rendered(extractedInvoices) :
          \E item \in Rendered(ItemsAt(extractedInvoices, index)) :
             DeleteLineItem(index, item)
    \/ \E index \in Rendered(extractedInvoices) : AddLineItem(index)
    \/ \E index \in Rendered(extractedInvoices), raw \in TaxInputs :
          TaxInput(index, raw)
    \/ Export

SpecSurface == InitLedger /\ [][NextSurface]_vars

\* selections at the limits of validateFiles, each request answered with an
\* extracted record
NextLimits ==
    \/ \E kinds \in LimitSelections : HandleChange(kinds)
    \/ \E kinds \in LimitSelections : HandleDrop(kinds)
    \/ HandleSubmit
    \/ \E r \in 1..Len(runs) : FetchSettles(r, "ok")
    \/ \E r \in 1..Len(runs) : JsonSettles(r, TRUE, Consistent)
    \/ \E r \in 1..Len(runs) : DelayElapses(r)
    \/ Reset

SpecLimits == Init /\ [][NextLimits]_vars

\* one document sent to the endpoint, for each reply the model may give
InitNormalizer ==
    /\ Start
    /\ extractedInvoices = <<>>
    /\ message \in Messages

NextNormalizer ==
    \/ HandleChange(<<GoodFile>>)
    \/ requestCounts[ClientIp] = None /\ HandleSubmit
    \/ \E r \in 1..Len(runs) : Post(r)
    \/ \E r \in 1..Len(runs) : FetchAnswered(r)
    \/ \E r \in 1..Len(runs) : JsonAnswered(r)
    \/ \E r \in 1..Len(runs) : FetchSettles(r, "reject")

SpecNormalizer == InitNormalizer /\ [][NextNormalizer]_vars

\* batches of accepted files, and the results section of the page between them:
\* its export, its edits and its reset
NextPublish ==
    \/ \E n \in 1..MaxSel : HandleChange(Uniform(n, GoodFile))
    \/ HandleSubmit
    \/ \E r \in 1..Len(runs), outcome \in {"ok", "status"} :
          FetchSettles(r, outcome)
    \/ \E r \in 1..Len(runs), data \in Bodies : JsonSettles(r, TRUE, data)
    \/ \E r \in 1..Len(runs) : DelayElapses(r)
    \/ Reset
    \/ Export
    \/ /\ nOps < MaxEdits
       /\ \/ \E index \in Rendered(extractedInvoices) : AddLineItem(index)
          \/ \E index \in Rendered(extractedInvoices) :
                \E item \in Rendered(ItemsAt(extractedInvoices, index)) :
                   DeleteLineItem(index, item)

SpecPublish == Init /\ [][NextPublish]_vars

\* the endpoint answering the requests of two client addresses as time passes
InitLimiter ==
    /\ Start
    /\ extractedInvoices = <<>>
    /\ message = GoodReply

NextLimiter ==
    \/ \E ip \in Ips : \E file \in RequestFiles : Request(ip, file)
    \/ Tick

SpecLimiter == InitLimiter /\ [][NextLimiter]_vars

\* the sizes of the batches sent through the endpoint: one document, as many
\* as the limiter admits in a window, and one more
BatchSizes == {1, RateLimit, RateLimit + 1}

\* the first batch of the interface, every document of which extracts, sent
\* through the endpoint
NextQuota ==
    \/ \E n \in BatchSizes : HandleChange(Uniform(n, GoodFile))
    \/ requestCounts[ClientIp] = None /\ HandleSubmit
    \/ \E r \in 1..Len(runs) : Post(r)
    \/ \E r \in 1..Len(runs) : FetchAnswered(r)
    \/ \E r \in 1..Len(runs) : JsonAnswered(r)
    \/ \E r \in 1..Len(runs) : DelayPasses(r)

SpecQuota == InitLimiter /\ [][NextQuota]_vars

\* the export of the ledgers an export starts from
InitExport ==
    /\ Start
    /\ extractedInvoices \in ExportLedgers
    /\ message = NoMessage

NextExport == Export

SpecExport == InitExport /\ [][NextExport]_vars

----------------------------------------------------------------------------
(* Properties of the ledger *)

LineOps == {"updateLineItem", "addLineItem", "deleteLineItem"}

\* a missing amount counts as 0
Amount(o) == IF Len(o) = 0 THEN 0 ELSE o[1]

\* the sum of line_total over the items, first item first
RECURSIVE LineTotalSum(_)
LineTotalSum(items) ==
    IF Len(items) = 0 THEN 0
    ELSE Amount(Head(items).line_total) + LineTotalSum(Tail(items))

\* this step is a call of the operation name
Called(name) == nOps' = nOps + 1 /\ lastOp'.op = name

\* the invoice the last operation was called on
Target == extractedInvoices[lastOp.index + 1]

\* C1: after any line-item mutation (updateLineItem on any field, addLineItem,
\* deleteLineItem) has returned, in any sequence of operations and from any
\* extracted or overridden subtotal, the subtotal of the invoice it was called
\* on is the sum of line_total over the invoice's current line items, a
\* missing line_total counting as 0.
C1_SubtotalIsSum ==
    (lastOp.op \in LineOps /\ lastOp.ok) =>
        Target.subtotal = Some(LineTotalSum(ItemsOf(Target)))

\* an invoice extracted with subtotal 50 over items that sum to 4, after a
\* second operation that was an updateLineItem
C1_Witness ==
    /\ lastOp.op = "updateLineItem" /\ lastOp.ok /\ nOps = 2
    /\ Target.vendor_name = Some("Bolt")
    /\ Target.subtotal # Some(50)
    /\ Target.subtotal = Some(LineTotalSum(ItemsOf(Target)))

\* C2: after any mutation of an invoice's line items or of its tax_amount,
\* by the tax input or by updateInvoice on the field tax_amount, total_amount
\* is subtotal + tax_amount, a missing amount counting as 0.
C2_TotalIsSubtotalPlusTax ==
    (/\ lastOp.ok
     /\ \/ lastOp.op \in LineOps
        \/ lastOp.op = "tax"
        \/ lastOp.op = "updateInvoice" /\ lastOp.field = "tax_amount" /\ lastOp.existed)
    => Target.total_amount = Some(Amount(Target.subtotal) + Amount(Target.tax_amount))

\* C8: updateLineItem on quantity or unit_price with value v stores v in that
\* field, leaves the other factor, sets line_total to v times the other
\* factor (0 when missing), and in the same step makes subtotal the sum of the
\* line totals and total_amount that sum plus tax_amount.
C8_LineTotalIsProduct ==
    [][(Called("updateLineItem") /\ lastOp'.ok
            /\ lastOp'.field \in {"quantity", "unit_price"}) =>
        LET i == lastOp'.index + 1
            k == lastOp'.item + 1
            f == lastOp'.field
            g == IF f = "quantity" THEN "unit_price" ELSE "quantity"
            other == IF lastOp'.existed THEN ItemsOf(extractedInvoices[i])[k][g]
                     ELSE None
            inv == extractedInvoices'[i]
            after == ItemsOf(inv)[k]
        IN  /\ after[f] = Some(lastOp'.num)
            /\ after[g] = other
            /\ after.line_total = Some(lastOp'.num * Amount(other))
            /\ inv.subtotal = Some(LineTotalSum(ItemsOf(inv)))
            /\ inv.total_amount
                  = Some(LineTotalSum(ItemsOf(inv)) + Amount(inv.tax_amount))
      ]_vars

\* quantity 3 written on the item with unit_price 10 of the invoice with tax 2
C8_Witness ==
    /\ lastOp.op = "updateLineItem" /\ lastOp.ok /\ lastOp.existed
    /\ lastOp.field = "quantity" /\ lastOp.num = 3
    /\ ItemsOf(Target)[lastOp.item + 1].unit_price = Some(10)
    /\ ItemsOf(Target)[lastOp.item + 1].line_total = Some(30)
    /\ Target.subtotal = Some(30)
    /\ Target.total_amount = Some(32)

\* C9: updateLineItem on line_total or description of an existing item leaves
\* the item's quantity and unit_price and every other item of the invoice as
\* they were, and stores a line_total as written; the line_total of an item
\* then stays until quantity, unit_price or line_total of that item is edited
\* or an item at or before its position is deleted.
C9_DirectLineTotalKept ==
    [][/\ (Called("updateLineItem") /\ lastOp'.ok /\ lastOp'.existed
              /\ lastOp'.field \in {"line_total", "description"}) =>
          LET i == lastOp'.index + 1
              k == lastOp'.item + 1
              before == ItemsOf(extractedInvoices[i])
              after == ItemsOf(extractedInvoices'[i])
          IN  /\ Len(after) = Len(before)
              /\ after[k].quantity = before[k].quantity
              /\ after[k].unit_price = before[k].unit_price
              /\ \A j \in 1..Len(before) : j # k => after[j] = before[j]
              /\ lastOp'.field = "line_total"
                    => after[k].line_total = Some(lastOp'.num)
              /\ lastOp'.field = "description"
                    => /\ after[k].line_total = before[k].line_total
                       /\ after[k].description = Some(lastOp'.text)
       /\ \A i \in 1..Len(extractedInvoices) :
             \A k \in 1..Len(ItemsOf(extractedInvoices[i])) :
                (/\ nOps' = nOps + 1
                 /\ ~ /\ lastOp'.index = i - 1
                      /\ \/ /\ lastOp'.op = "updateLineItem"
                            /\ lastOp'.item = k - 1
                            /\ lastOp'.field \in NumFields
                         \/ /\ lastOp'.op = "deleteLineItem"
                            /\ lastOp'.item <= k - 1)
                => /\ k <= Len(ItemsOf(extractedInvoices'[i]))
                   /\ ItemsOf(extractedInvoices'[i])[k].line_total
                         = ItemsOf(extractedInvoices[i])[k].line_total
      ]_vars

\* line_total 3 written on the item with quantity 2 and unit_price 10, and
\* still there after a later edit of the description
C9_Witness ==
    /\ lastOp.op = "updateLineItem" /\ lastOp.ok /\ lastOp.existed
    /\ lastOp.field = "description" /\ nOps = 2
    /\ ItemsOf(Target)[lastOp.item + 1].quantity = Some(2)
    /\ ItemsOf(Target)[lastOp.item + 1].unit_price = Some(10)
    /\ ItemsOf(Target)[lastOp.item + 1].line_total = Some(3)

\* C10: updateInvoice on an existing invoice stores the value in the named
\* field and changes nothing else: no other field of the invoice, no other
\* invoice; and subtotal and total_amount stay as they are in every step that
\* is neither a line-item mutation nor a tax edit of that invoice nor an
\* updateInvoice of that field.
C10_UpdateInvoiceOverwritesOnly ==
    [][/\ (Called("updateInvoice") /\ lastOp'.existed) =>
          LET i == lastOp'.index + 1
              f == lastOp'.field
              before == extractedInvoices[i]
              after == extractedInvoices'[i]
          IN  /\ Len(extractedInvoices') = Len(extractedInvoices)
              /\ \A j \in 1..Len(extractedInvoices) :
                    j # i => extractedInvoices'[j] = extractedInvoices[j]
              /\ \A g \in (DOMAIN before) \ {f} : after[g] = before[g]
              /\ f \in TextFields => after[f] = Some(lastOp'.text)
              /\ f \in AmountFields => after[f] = Some(lastOp'.num)
       /\ \A i \in 1..Len(extractedInvoices) : \A f \in {"subtotal", "total_amount"} :
             (/\ nOps' = nOps + 1
              /\ ~ /\ lastOp'.index = i - 1
                   /\ \/ lastOp'.op \in LineOps \cup {"tax"}
                      \/ lastOp'.op = "updateInvoice" /\ lastOp'.field = f)
             => extractedInvoices'[i][f] = extractedInvoices[i][f]
      ]_vars

\* subtotal 3 written over items that sum to 20, total_amount still 22
C10_Witness ==
    /\ lastOp.op = "updateInvoice" /\ lastOp.existed
    /\ lastOp.field = "subtotal" /\ lastOp.num = 3
    /\ Target.subtotal = Some(3)
    /\ Target.tax_amount = Some(2)
    /\ Target.total_amount = Some(22)
    /\ LineTotalSum(ItemsOf(Target)) = 20

\* C11: addLineItem on an existing invoice returns and leaves, as the
\* invoice's line items, the items it had (none when line_items was absent),
\* in their order, followed by one item with description "New Item",
\* quantity 1, unit_price 0 and line_total 0: the count grows by exactly 1.
C11_AddAppendsPlaceholder ==
    [][(Called("addLineItem") /\ lastOp'.existed) =>
        LET i == lastOp'.index + 1
            before == extractedInvoices[i].line_items
            after == extractedInvoices'[i].line_items
            had == IF before = <<>> THEN <<>> ELSE before[1]
        IN  /\ lastOp'.ok
            /\ Len(after) = 1
            /\ Len(after[1]) = Len(had) + 1
            /\ \A k \in 1..Len(had) : after[1][k] = had[k]
            /\ after[1][Len(had) + 1]
                  = [description |-> <<"New Item">>, quantity |-> <<1>>,
                     unit_price |-> <<0>>, line_total |-> <<0>>]
      ]_vars

\* the invoice extracted without line_items has one item, the placeholder
C11_Witness ==
    /\ lastOp.op = "addLineItem" /\ lastOp.ok /\ nOps = 1
    /\ Target.vendor_name = <<>>
    /\ Target.total_amount = <<0>>
    /\ Len(Target.line_items) = 1
    /\ Len(Target.line_items[1]) = 1
    /\ Target.line_items[1][1].description = <<"New Item">>

\* C12: deleteLineItem on an existing item of an invoice leaves the items
\* before it and the items after it, in their order, and nothing else, and
\* makes subtotal the sum of their line totals; when the item was the only
\* one, subtotal is 0 and total_amount is tax_amount (0 when missing).
C12_DeleteRemovesOne ==
    [][(Called("deleteLineItem") /\ lastOp'.existed) =>
        LET i == lastOp'.index + 1
            k == lastOp'.item + 1
            before == ItemsOf(extractedInvoices[i])
            inv == extractedInvoices'[i]
            after == ItemsOf(inv)
        IN  /\ lastOp'.ok
            /\ inv.line_items # <<>>
            /\ Len(after) = Len(before) - 1
            /\ \A j \in 1..Len(after) :
                  after[j] = IF j < k THEN before[j] ELSE before[j + 1]
            /\ Len(before) = 1 =>
                  /\ inv.subtotal = <<0>>
                  /\ inv.total_amount = <<Amount(inv.tax_amount)>>
      ]_vars

\* the first of the two items of the invoice with tax 1 was deleted, then the
\* one left
C12_Witness ==
    /\ lastOp.op = "deleteLineItem" /\ lastOp.ok /\ lastOp.existed /\ nOps = 2
    /\ Target.vendor_name = <<"Bolt">>
    /\ Target.line_items = <<<<>>>>
    /\ Target.subtotal = <<0>>
    /\ Target.total_amount = <<1>>

\* C13: deleteLineItem on an existing invoice with an item index that is
\* not the index of one of its items leaves the whole ledger as it was.
C13_DeleteOutOfRangeNoOp ==
    [][(/\ Called("deleteLineItem")
        /\ lastOp'.index \in 0..(Len(extractedInvoices) - 1)
        /\ ~lastOp'.existed)
        => extractedInvoices' = extractedInvoices
      ]_vars

\* C14: updateInvoice, updateLineItem, addLineItem or deleteLineItem called
\* with the index of no invoice, or of no line item of the invoice, returns
\* to its caller and leaves the ledger as it was.
C14_OutOfRangeNoOp ==
    [][(/\ nOps' = nOps + 1
        /\ lastOp'.op \in {"updateInvoice", "updateLineItem", "addLineItem",
                           "deleteLineItem"}
        /\ ~lastOp'.existed)
        => (lastOp'.ok /\ extractedInvoices' = extractedInvoices)
      ]_vars

\* C15: whatever is typed in the number inputs, text that is no number
\* included, every edit made through the inputs and buttons returns, and no
\* quantity, unit_price or line_total of a line item and no subtotal,
\* tax_amount or total_amount of an invoice is NaN.
C15_NoNaN ==
    /\ lastOp.ok
    /\ \A i \in 1..Len(extractedInvoices) :
          LET inv == extractedInvoices[i] IN
          /\ \A f \in {"subtotal", "tax_amount", "total_amount"} : inv[f] # <<NaN>>
          /\ \A k \in 1..Len(ItemsOf(inv)) :
                \A f \in {"quantity", "unit_price", "line_total"} :
                   ItemsOf(inv)[k][f] # <<NaN>>

\* text that is no number was typed as the quantity of the item with
\* unit_price 10: quantity and line_total are 0, and the subtotal follows
C15_Witness ==
    /\ lastOp.op = "updateLineItem" /\ lastOp.field = "quantity" /\ lastOp.num = 0
    /\ Len(extractedInvoices) = 1
    /\ Target.vendor_name = <<"Acme">>
    /\ ItemsOf(Target)[1].quantity = <<0>>
    /\ ItemsOf(Target)[1].line_total = <<0>>
    /\ Target.subtotal = <<0>>

\* C16: subtotal, tax_amount and total_amount of every invoice of the ledger
\* are non-negative, a missing amount counting as 0, after any edits of
\* records extracted with non-negative amounts.
C16_AmountsNonNegative ==
    \A i \in 1..Len(extractedInvoices) :
       \A f \in {"subtotal", "tax_amount", "total_amount"} :
          Amount(extractedInvoices[i][f]) >= 0

----------------------------------------------------------------------------
(* Properties of the extraction endpoint *)

\* the text of the reply: empty when the reply is not a text
ReplyText == IF message.type = "text" THEN message.text ELSE <<>>

\* some opening brace of the text is followed, later, by a closing brace
HasSpan(text) ==
    \E i \in 1..Len(text) : \E j \in (i + 1)..Len(text) :
       text[i].t = "{" /\ text[j].t = "}"

NoPayload == "Failed to extract structured data from invoice"
Malformed == "Failed to parse extracted data"

\* C17: the candidate taken from a reply starts at the first opening brace of
\* the reply and ends at its last closing brace, whatever stands before,
\* between and after them; the endpoint answers that no structured data was
\* found exactly when no opening brace of the reply is followed by a closing
\* brace, as for a reply without braces, an empty reply or one that is no text.
C17_CandidateFirstToLastBrace ==
    /\ IF HasSpan(ReplyText)
       THEN /\ Match(ReplyText) # <<>>
            /\ \E i \in 1..Len(ReplyText) : \E j \in (i + 1)..Len(ReplyText) :
                  /\ ReplyText[i].t = "{"
                  /\ \A k \in 1..(i - 1) : ReplyText[k].t # "{"
                  /\ ReplyText[j].t = "}"
                  /\ \A k \in (j + 1)..Len(ReplyText) : ReplyText[k].t # "}"
                  /\ Match(ReplyText)[1] = [k \in 1..(j - i + 1) |-> ReplyText[i + k - 1]]
       ELSE Match(ReplyText) = <<>>
    /\ response # <<>> =>
          ((response[1].status = 500 /\ response[1].error = NoPayload)
              <=> ~HasSpan(ReplyText))

\* prose, an empty object, prose: the endpoint answered 200
C17_Witness ==
    /\ response # <<>>
    /\ response[1].status = 200
    /\ Len(message.text) = 4
    /\ message.text[1].t = "p" /\ message.text[2].t = "{"
    /\ message.text[3].t = "}" /\ message.text[4].t = "p"

\* the candidate is an object: only members between its two braces
WellFormed(text) ==
    /\ Len(text) >= 2
    /\ \A i \in 2..(Len(text) - 1) : text[i].t = "m"

\* some member of the text is a line_items array with a null element, on
\* which the sanitization raises an exception
HasNullItem(text) ==
    \E i \in 1..Len(text) : \E k \in 1..Len(text[i].list.items) :
       /\ text[i].key = "line_items"
       /\ \A j \in (i + 1)..Len(text) : text[j].key # "line_items"
       /\ text[i].list.items[k].kind = "null"

\* the reply normalizes: it has a candidate, the candidate parses, and the
\* sanitization runs to its end
Normalizes ==
    /\ HasSpan(ReplyText)
    /\ WellFormed(Match(ReplyText)[1])
    /\ ~HasNullItem(Match(ReplyText)[1])

\* C18: a candidate that does not parse is answered with the parse error;
\* the response carries a record exactly when the reply normalizes, and then
\* with status 200, otherwise it has status 500 and no data; and when the
\* batch of the document ends, the ledger holds a record for it only if the
\* reply normalized and the request was answered, the document being in the
\* failed list otherwise.
C18_AllOrNothing ==
    /\ response # <<>> =>
          /\ (HasSpan(ReplyText) /\ ~WellFormed(Match(ReplyText)[1])) =>
                (response[1].status = 500 /\ response[1].error = Malformed)
          /\ Normalizes <=> response[1].status = 200
          /\ Normalizes <=> response[1].data # <<>>
    /\ ended # <<>> =>
          /\ extractedInvoices = ended[1].results
          /\ IF Normalizes /\ ended[1].log = <<"ok">>
             THEN Len(extractedInvoices) = 1 /\ ended[1].failedFiles = <<>>
             ELSE extractedInvoices = <<>> /\ ended[1].failedFiles = <<1>>

\* the reply {"a":} : the batch ended with no record and the document failed
C18_Witness ==
    /\ ended # <<>>
    /\ Len(message.text) = 3
    /\ message.text[1].t = "{" /\ message.text[2].t = "bad" /\ message.text[3].t = "}"
    /\ ended[1].log = <<"status">>
    /\ extractedInvoices = <<>>
    /\ error.kind = "failed"

\* no "<" of the string is followed, later, by a ">"
TagFree(s) == ~\E i \in 1..Len(s) : \E j \in (i + 1)..Len(s) : s[i] = "<" /\ s[j] = ">"

\* the string neither starts nor ends with white space
Trimmed(s) == s = <<>> \/ (s[1] # " " /\ s[Len(s)] # " ")

\* the value the candidate gives to a key: that of its last member of the key
GivenMember(key) ==
    LET c == Match(ReplyText)[1]
        at == {i \in 1..Len(c) : c[i].t = "m" /\ c[i].key = key}
    IN  IF at = {} THEN [t |-> "m", key |-> key, value |-> [type |-> "absent", n |-> 0, s |-> <<>>],
                         list |-> [type |-> "absent", items |-> <<>>]]
        ELSE c[CHOOSE i \in at : \A j \in at : j <= i]

\* C19: in the record of a response, every top-level string and the
\* description of every line item has no "<" followed later by a ">" and no
\* white space at either end, and sanitizing it again returns it as it is;
\* a value that is not a string, and every other field of a line item, is
\* the value the reply gave.
C19_StringsSanitized ==
    (response # <<>> /\ response[1].data # <<>>) =>
        LET data == response[1].data[1] IN
        /\ \A key \in {"vendor_name", "subtotal", "tax_amount", "total_amount"} :
              IF data[key].type = "string"
              THEN /\ GivenMember(key).value.type = "string"
                   /\ TagFree(data[key].s)
                   /\ Trimmed(data[key].s)
                   /\ sanitize(data[key]) = data[key]
              ELSE data[key] = GivenMember(key).value
        /\ data.line_items.type = GivenMember("line_items").list.type
        /\ Len(data.line_items.items) = Len(GivenMember("line_items").list.items)
        /\ \A k \in 1..Len(data.line_items.items) :
              LET item == data.line_items.items[k]
                  given == GivenMember("line_items").list.items[k]
              IN  /\ IF item.description.type = "string"
                     THEN /\ given.description.type = "string"
                          /\ TagFree(item.description.s)
                          /\ Trimmed(item.description.s)
                          /\ sanitize(item.description) = item.description
                     ELSE item.description = given.description
                  /\ \A f \in {"quantity", "unit_price", "line_total"} :
                        item[f] = given[f]

\* the reply {"vendor_name": " <b>A</b>", "subtotal": 5}: the record has
\* vendor_name "A" and subtotal 5
C19_Witness ==
    /\ response # <<>>
    /\ response[1].data # <<>>
    /\ Len(message.text) = 4
    /\ message.text[2].key = "vendor_name"
    /\ message.text[2].value.s = <<" ", "<", "b", ">", "A", "<", "/", "b", ">">>
    /\ response[1].data[1].vendor_name.s = <<"A">>
    /\ response[1].data[1].subtotal.n = 5

\* C20: in the record of a response, a line item to which the reply gave no
\* quantity has quantity 1, and unit_price, line_total and the amounts of the
\* invoice are absent where the reply gave none.
C20_QuantityDefaultsToOne ==
    (response # <<>> /\ response[1].data # <<>>) =>
        LET data == response[1].data[1] IN
        /\ \A key \in {"subtotal", "tax_amount", "total_amount"} :
              GivenMember(key).value.type = "absent" => data[key].type = "absent"
        /\ \A k \in 1..Len(data.line_items.items) :
              LET item == data.line_items.items[k]
                  given == GivenMember("line_items").list.items[k]
              IN  /\ given.quantity.type = "absent" =>
                        (item.quantity.type = "number" /\ item.quantity.n = 1)
                  /\ \A f \in {"unit_price", "line_total"} :
                        given[f].type = "absent" => item[f].type = "absent"

----------------------------------------------------------------------------
(* Properties of the batch *)

\* the names of the documents, in input order, whose round trip ended ok
\* (want = TRUE) or ended in a failure (want = FALSE)
RECURSIVE NamesEnded(_, _, _)
NamesEnded(fileList, log, want) ==
    IF Len(fileList) = 0 \/ Len(log) = 0 THEN <<>>
    ELSE (IF (Head(log) = "ok") = want THEN <<Head(fileList).name>> ELSE <<>>)
            \o NamesEnded(Tail(fileList), Tail(log), want)

Outstanding == {r \in 1..Len(runs) : runs[r].pc \in {"fetch", "json"}}

\* C3: when a batch of n documents ends, each document was fetched exactly
\* once, in order, whatever failed before it; each is in exactly one of the
\* success list and the failed-name list, in the failed list exactly when its
\* request failed (network error, non-2xx status, unreadable response); and
\* the ledger is the success list.
C3_EveryDocumentInOneOutcome ==
    ended # None =>
        LET run == ended[1]
            n == Len(run.files)
        IN  /\ run.asked = [k \in 1..n |-> k - 1]
            /\ Len(run.log) = n
            /\ Len(run.results) + Len(run.failedFiles) = n
            /\ \A k \in 1..n :
                  LET inResults == {j \in 1..Len(run.results) :
                                        run.results[j]._filename = Some(run.files[k].name)}
                      inFailed == {j \in 1..Len(run.failedFiles) :
                                        run.failedFiles[j] = run.files[k].name}
                  IN  /\ Cardinality(inResults) + Cardinality(inFailed) = 1
                      /\ (inFailed # {}) <=> (run.log[k] \in {"network", "status", "unreadable"})
            /\ extractedInvoices = run.results

\* a batch of two that ended after its first document failed on the network
C3_Witness ==
    /\ ended # None
    /\ ended[1].log = <<"network", "ok">>
    /\ Len(extractedInvoices) = 1
    /\ error.kind = "failed"

\* C4: when a batch ends, the success list holds, in input order, one record
\* per document that succeeded, each with _filename the name of its document,
\* and the failed list holds the names of the failed documents in input order.
C4_OrderPreserved ==
    ended # None =>
        LET run == ended[1]
        IN  /\ [j \in 1..Len(run.results) |-> run.results[j]._filename]
                  = [j \in 1..Len(NamesEnded(run.files, run.log, TRUE)) |->
                        Some(NamesEnded(run.files, run.log, TRUE)[j])]
            /\ run.failedFiles = NamesEnded(run.files, run.log, FALSE)

\* two successes in input order
C4_Witness ==
    /\ ended # None
    /\ ended[1].log = <<"ok", "ok">>
    /\ extractedInvoices[1]._filename = Some(1)
    /\ extractedInvoices[2]._filename = Some(2)

C6_OneRequestAtATime == Cardinality(Outstanding) <= 1

\* the second request of a batch is outstanding while the user has selected
\* other files
C6_Witness ==
    /\ Cardinality(Outstanding) = 1
    /\ loading
    /\ runs[1].i = 1
    /\ files # runs[1].files

\* C7: while the request for document i is outstanding, the round trips of
\* the i documents before it have all been recorded and i delays of 500 ms
\* have been waited for; the delay after a document starts once that document
\* is recorded and only when it is not the last; a batch of n documents ends
\* having waited n - 1 delays, whatever failed.
C7_SequentialWithDelay ==
    /\ \A r \in 1..Len(runs) :
          LET run == runs[r] IN
          /\ run.pc \in {"fetch", "json"} =>
                /\ Len(run.log) = run.i
                /\ Len(run.results) + Len(run.failedFiles) = run.i
                /\ run.waited = 500 * run.i
          /\ run.pc = "delay" =>
                /\ Len(run.log) = run.i + 1
                /\ run.i + 1 < Len(run.files)
                /\ run.waited = 500 * run.i
    /\ ended # None =>
          /\ Len(ended[1].log) = Len(ended[1].files)
          /\ ended[1].waited = 500 * (Len(ended[1].files) - 1)

\* the second request is outstanding after the first document failed and one
\* delay was waited for
C7_Witness ==
    /\ Len(runs) = 1
    /\ runs[1].pc = "fetch" /\ runs[1].i = 1
    /\ runs[1].log = <<"status">>
    /\ runs[1].waited = 500

\* C30: every ledger mutation addressed to invoice i (updateInvoice,
\* updateLineItem, addLineItem, deleteLineItem, the tax edit) leaves every
\* other invoice unchanged in all its fields and line items and changes
\* neither the number nor the order of the invoices; an export leaves the
\* whole ledger unchanged.
C30_OtherInvoicesUntouched ==
    [][/\ (/\ nOps' = nOps + 1
           /\ lastOp'.op \in {"updateInvoice", "updateLineItem", "addLineItem",
                              "deleteLineItem", "tax"})
          => /\ Len(extractedInvoices') = Len(extractedInvoices)
             /\ \A j \in 1..Len(extractedInvoices) :
                   j # lastOp'.index + 1 =>
                      extractedInvoices'[j] = extractedInvoices[j]
       /\ download' # download => extractedInvoices' = extractedInvoices
      ]_vars

\* the tax of the second of two invoices was edited, then the ledger was
\* exported: the first invoice is as extracted
C30_Witness ==
    /\ Len(extractedInvoices) = 2
    /\ lastOp.op = "tax" /\ lastOp.index = 1
    /\ extractedInvoices[1] = Partial
    /\ extractedInvoices[2].tax_amount = <<-2>>
    /\ download # <<>>
    /\ download[1].csv = exportToCSV(extractedInvoices).csv

----------------------------------------------------------------------------
(* Properties of the export *)

\* the line items of an invoice, none when the field is absent
ExportedItems(invoice) ==
    IF invoice.line_items = None THEN <<>> ELSE invoice.line_items[1]

\* a text between double quotes, the empty text when it is absent
Quoted(o) == <<"\"">> \o CharsOf(IF o = None THEN "" ELSE o[1]) \o <<"\"">>

\* a number as written, 0 when it is absent
Plain(o) == <<ToString(IF o = None THEN 0 ELSE o[1])>>

\* the part of the file that holds the rows of invoice i of the ledger
SegmentOf(file, ledger, i) ==
    LET before == Len(Joined(HeaderRow))
                  + Len(Written(LedgerRows(SubSeq(ledger, 1, i - 1))))
    IN  SubSeq(file.csv, before + 1,
               before + Len(Written(InvoiceRows(ledger[i]))))

\* a row starts with the invoice's vendor, number, dates and PO number
RepeatsInvoice(row, invoice) ==
    /\ Len(row) = 12
    /\ row[1] = Quoted(invoice.vendor_name)
    /\ row[2] = Quoted(invoice.invoice_number)
    /\ row[3] = Quoted(invoice.invoice_date)
    /\ row[4] = Quoted(invoice.due_date)
    /\ row[5] = Quoted(invoice.purchase_order_number)

\* a row carries the invoice's Subtotal, Tax and Total
CarriesTotals(row, invoice) ==
    /\ row[10] = Plain(invoice.subtotal)
    /\ row[11] = Plain(invoice.tax_amount)
    /\ row[12] = Plain(invoice.total_amount)

\* C21: an export of an invoice with n >= 1 line items writes exactly n data
\* rows for it, in item order, each repeating the invoice's vendor, number,
\* dates and PO number and carrying the description of its item; Subtotal,
\* Tax and Total (0 when absent) are on the first of the n rows only, the
\* three cells being empty on rows 2..n.
C21_OneRowPerLineItem ==
    [][download' # download =>
        \A i \in 1..Len(extractedInvoices) :
            LET invoice == extractedInvoices[i]
                n == Len(ExportedItems(invoice))
                rows == InvoiceRows(invoice)
            IN  n >= 1 =>
                /\ Len(rows) = n
                /\ SegmentOf(download'[1], extractedInvoices, i) = Written(rows)
                /\ \A k \in 1..n :
                      /\ RepeatsInvoice(rows[k], invoice)
                      /\ rows[k][6] = Quoted(ExportedItems(invoice)[k].description)
                      /\ IF k = 1 THEN CarriesTotals(rows[k], invoice)
                         ELSE rows[k][10] = <<>> /\ rows[k][11] = <<>>
                              /\ rows[k][12] = <<>>
      ]_vars

\* a ledger was exported whose second invoice has two line items and whose
\* first has one item and every total
C21_Witness ==
    /\ download # None
    /\ download[1].count = 2
    /\ Len(extractedInvoices) = 2
    /\ Len(ExportedItems(extractedInvoices[1])) = 1
    /\ Len(ExportedItems(extractedInvoices[2])) = 2
    /\ download[1].csv = exportToCSV(extractedInvoices).csv

\* C22: an export of an invoice with no line items (the list empty or absent)
\* writes exactly one row for it: Description is "No line items", Quantity,
\* Unit Price and Line Total are empty, Subtotal, Tax and Total carry the
\* invoice's values; an absent text field is written as an empty quoted
\* string and an absent numeric field as 0.
C22_PlaceholderRow ==
    [][download' # download =>
        \A i \in 1..Len(extractedInvoices) :
            LET invoice == extractedInvoices[i]
                rows == InvoiceRows(invoice)
            IN  Len(ExportedItems(invoice)) = 0 =>
                /\ Len(rows) = 1
                /\ SegmentOf(download'[1], extractedInvoices, i) = Written(rows)
                /\ RepeatsInvoice(rows[1], invoice)
                /\ rows[1][6] = <<"\"", "No line items", "\"">>
                /\ rows[1][7] = <<>> /\ rows[1][8] = <<>> /\ rows[1][9] = <<>>
                /\ CarriesTotals(rows[1], invoice)
                /\ invoice.vendor_name = None => rows[1][1] = <<"\"", "\"">>
                /\ invoice.tax_amount = None => rows[1][11] = <<"0">>
      ]_vars

\* a ledger was exported that holds an invoice whose list of items is absent,
\* with no vendor and no tax, and one whose list is empty
C22_Witness ==
    /\ download # None
    /\ Len(extractedInvoices) = 2
    /\ extractedInvoices[1].line_items = None
    /\ extractedInvoices[1].vendor_name = None
    /\ extractedInvoices[1].tax_amount = None
    /\ extractedInvoices[2].line_items = Some(<<>>)
    /\ download[1].csv = exportToCSV(extractedInvoices).csv

\* a reader of comma-separated values: a double quote opens or closes a quoted
\* stretch, so position p of a text is outside the quoted stretches when an
\* even number of double quotes comes before it
Outside(text, p) ==
    Cardinality({q \in 1..(p - 1) : text[q] = "\""}) % 2 = 0

\* a line break outside a quoted stretch ends a record
RecordEnds(text) ==
    {p \in 1..Len(text) : text[p] = "\n" /\ Outside(text, p)}

\* the number of fields of the record that ends at position p: a comma outside
\* a quoted stretch ends a field
FieldsOfRecord(text, p) ==
    LET earlier == {q \in RecordEnds(text) : q < p}
        from == IF earlier = {} THEN 0 ELSE Max(earlier)
    IN  1 + Cardinality({q \in (from + 1)..(p - 1) :
                            text[q] = "," /\ Outside(text, q)})

\* C23: the exported file is well formed for every ledger content: the header
\* line comes first, then the rows of the invoices in ledger order, and every
\* record reads back as exactly 12 comma-separated fields, also when a
\* vendor name, an invoice number or a description contains a double quote, a
\* comma or a line break.
C23_WellFormedFile ==
    [][download' # download =>
        LET csv == download'[1].csv IN
        /\ SubSeq(csv, 1, Len(Joined(HeaderRow))) = Joined(HeaderRow)
        /\ Cardinality(RecordEnds(csv)) = 1 + Len(LedgerRows(extractedInvoices))
        /\ Len(csv) \in RecordEnds(csv)
        /\ \A p \in RecordEnds(csv) : FieldsOfRecord(csv, p) = 12
      ]_vars

----------------------------------------------------------------------------
(* Properties of the endpoint's admission *)

\* the request carried a PDF of at most 10,485,760 bytes
CarriesPdf(file) ==
    /\ file # None
    /\ file[1].type = "application/pdf"
    /\ file[1].size <= 10485760

\* C24: the endpoint calls the external model only for a request that carries
\* a file of type application/pdf and of at most 10,485,760 bytes; a request
\* with no file, with another type or with a larger file is answered 400 and a
\* request that is not admitted by the rate limiter 429, each without a call
\* to the model.
C24_ModelCalledOnlyForPdf ==
    answered # None =>
        LET a == answered[1] IN
        /\ a.called => a.admitted /\ CarriesPdf(a.file)
        /\ a.admitted /\ ~CarriesPdf(a.file) => a.status = 400 /\ ~a.called
        /\ ~a.admitted => a.status = 429 /\ ~a.called

\* the tenth request of a window carried an image and was answered 400 with
\* no call to the model
C24_Witness ==
    /\ answered # None
    /\ answered[1].file # None
    /\ answered[1].file[1].type = "image/png"
    /\ answered[1].status = 400
    /\ ~answered[1].called
    /\ requestCounts[answered[1].ip][1].count = 10

\* C25: the rate limiter admits at most 10 requests per window and client
\* address.  The stored count of an address never exceeds 10; a request that
\* arrives no later than resetTime when the count is 10 is rejected and
\* leaves the counter unchanged, and below 10 it is admitted and counted in
\* the same window; the first request strictly after resetTime is admitted
\* and opens a window with count 1 that ends 3,600,000 ms later; a request
\* leaves the counter of every other address unchanged.
C25_TenPerWindow ==
    [][/\ \A ip \in Ips :
             requestCounts'[ip] # None => requestCounts'[ip][1].count \in 1..10
       /\ \A ip \in Ips : \A file \in RequestFiles :
             Request(ip, file) =>
                LET old == requestCounts[ip]
                    new == requestCounts'[ip]
                    a == answered'[1]
                IN  /\ \A other \in Ips \ {ip} :
                          requestCounts'[other] = requestCounts[other]
                    /\ a.status = 429 <=> ~a.admitted
                    /\ old # None /\ now <= old[1].resetTime =>
                          IF old[1].count >= 10
                          THEN ~a.admitted /\ new = old
                          ELSE /\ a.admitted
                               /\ new[1].count = old[1].count + 1
                               /\ new[1].resetTime = old[1].resetTime
                    /\ old = None \/ (old # None /\ now > old[1].resetTime) =>
                          /\ a.admitted
                          /\ new = <<[count |-> 1, resetTime |-> now + 3600000]>>
      ]_vars

\* one address has used its 10 requests in a window that is still open while
\* the other, its window over by one millisecond, has opened a new one
C25_Witness ==
    /\ now = 3600001
    /\ requestCounts["10.0.0.7"] = <<[count |-> 10, resetTime |-> 7200000]>>
    /\ requestCounts["unknown"] = <<[count |-> 1, resetTime |-> 7200001]>>
    /\ answered # None /\ answered[1].ip = "unknown" /\ answered[1].admitted

\* C26: a batch that passed validation and whose documents all extract yields
\* one success per document, for every accepted batch size from one client
\* address: the rate limit turns no document into a failure.
C26_BatchWithinQuota ==
    ended # None =>
        /\ Len(ended[1].results) = Len(ended[1].files)
        /\ ended[1].failedFiles = <<>>

----------------------------------------------------------------------------
(* Properties of a batch from its start to its end *)

\* C27: every batch that has started finishes, provided each of its requests
\* eventually returns or fails: loading is true from the start of the batch
\* until its end and false afterwards, and the processing status is empty
\* once the batch has ended.
C27_BatchFinishes ==
    /\ [](loading <=> Len(runs) > 0)
    /\ [](~loading => processingStatus = <<>>)
    /\ [](ended # <<>> => ~loading)
    /\ (loading ~> ~loading)

\* a batch of two documents has ended, its first document failed
C27_Witness ==
    /\ ended # None
    /\ Len(ended[1].files) = 2
    /\ ended[1].failedFiles # <<>>
    /\ ~loading
    /\ processingStatus = None

\* C28: while a batch is in progress the ledger is empty; the results of the
\* batch are published in one step, after its last document, as the whole
\* list of its successes; no ledger edit and no export happens while the
\* batch runs, so no partial list of results is ever shown or exported.
C28_PublishedAtOnce ==
    [][/\ loading => extractedInvoices = <<>>
       /\ loading /\ extractedInvoices' # <<>> =>
             /\ ~loading'
             /\ ended' # <<>>
             /\ extractedInvoices' = ended'[1].results
             /\ Len(ended'[1].results) + Len(ended'[1].failedFiles)
                    = Len(ended'[1].files)
       /\ loading => download' = download /\ lastOp'.op = "none"
      ]_vars

\* a second batch is in progress: the ledger is empty while the export of the
\* first batch's results is still the last file handed out
C28_Witness ==
    /\ loading
    /\ extractedInvoices = <<>>
    /\ download # <<>>
    /\ Len(runs) = 1 /\ runs[1].i = 1
    /\ Len(runs[1].results) = 1

----------------------------------------------------------------------------
(* Properties of the selection *)

\* a set of files that is empty or passes validation
EmptyOrAccepted(set) ==
    \/ set = <<>>
    \/ /\ Len(set) <= 50
       /\ \A k \in 1..Len(set) :
             set[k].type = "application/pdf" /\ set[k].size <= 10485760

====
